---- MODULE Spec2Model ----
(***************************************************************************)
(* Model of the three shortest-path programs of the repository:            *)
(*   q1_floyd_central.py      Floyd-Warshall with routing + central vertex *)
(*   q2_otimizando_caminho.py Bellman-Ford + predecessor reconstruction    *)
(*   q3_grid.py               Dijkstra on a character grid + grid reader   *)
(* Each program is a separate sequential state machine (SpecFloyd,         *)
(* SpecBellman, SpecDijkstra, SpecReadGrid); the variables of the programs *)
(* a specification does not run stay at their idle values.                 *)
(***************************************************************************)
EXTENDS Integers, Sequences, FiniteSets, TLC

VARIABLES
    \* q1_floyd_central.py
    fpc, n, edges, D, R, k, central,
    \* q2_otimizando_caminho.py
    bpc, bf_n, bf_edges, src, dist, anterior, passes, updated,
    \* q3_grid.py: the reader (rpc, header, lines), its result and dijkstra;
    \* closed and lastpop record the cells popped with a valid entry (the set
    \* F of the program's comments) and the distance of the last such pop
    rpc, hrows, hcols, flines, grid, start, goal,
    gpc, dj_dist, parent, heap, expanded, closed, lastpop, dj_path, dj_cost

q1vars == <<fpc, n, edges, D, R, k, central>>
q2vars == <<bpc, bf_n, bf_edges, src, dist, anterior, passes, updated>>
q3vars == <<rpc, hrows, hcols, flines, grid, start, goal,
           gpc, dj_dist, parent, heap, expanded, closed, lastpop, dj_path, dj_cost>>
vars == <<q1vars, q2vars, q3vars>>
\* the variables of the other programs, untouched by each program's steps
others1 == <<q2vars, q3vars>>
others2 == <<q1vars, q3vars>>
others3 == <<q1vars, q2vars>>

(***************************************************************************)
(* Shared values                                                           *)
(***************************************************************************)
\* math.inf: larger than every finite sum the bounded inputs can produce.
INF == 1000000
\* Python None in the routing matrix / central vertex (vertices are 1..n).
None == 0

IsInf(x) == x >= INF
\* float/int addition where inf absorbs.
Plus(a, b) == IF IsInf(a) \/ IsInf(b) THEN INF ELSE a + b

(***************************************************************************)
(* Bounds of the Floyd-Warshall model                                      *)
(***************************************************************************)
FMaxN == 3
FMaxLines == 3
\* edge weights of the sample files (non-negative)
FWeights == {0, 1, 5}

(***************************************************************************)
(* q1_floyd_central.py                                                     *)
(***************************************************************************)
\* for u, v, w in edges: if w < D[u][v]: D[u][v] = w
RECURSIVE InitEdges(_, _, _)
InitEdges(d, es, idx) ==
    IF idx > Len(es) THEN d
    ELSE LET u == es[idx][1]
             v == es[idx][2]
             w == es[idx][3]
         IN  InitEdges(IF w < d[u][v] THEN [d EXCEPT ![u][v] = w] ELSE d,
                       es, idx + 1)

floyd_init_with_routing(nn, es) ==
    LET D0 == [i \in 0..nn |-> [j \in 0..nn |->
                  IF i = j /\ i >= 1 THEN 0 ELSE INF]]
        D1 == InitEdges(D0, es, 1)
        R1 == [i \in 0..nn |-> [j \in 0..nn |->
                  IF i >= 1 /\ j >= 1 /\ D1[i][j] < INF THEN j ELSE None]]
    IN  [D |-> D1, R |-> R1]

\* the routing update of one successful relaxation: r_ij <- r_ik
RouteKeep(r, i, j, kk) == r
RouteUpdate(r, i, j, kk) == [r EXCEPT ![i][j] = r[i][kk]]

\* inner loop over j for fixed k, i and the dik read before the loop
RECURSIVE InnerJ(_, _, _, _, _, _)
InnerJ(st, nn, kk, i, dik, j) ==
    IF j > nn THEN st
    ELSE LET alt == Plus(dik, st.D[kk][j])
         IN  IF alt < st.D[i][j]
             THEN InnerJ([D |-> [st.D EXCEPT ![i][j] = alt],
                          R |-> RouteUpdate(st.R, i, j, kk)],
                         nn, kk, i, dik, j + 1)
             ELSE InnerJ(st, nn, kk, i, dik, j + 1)

\* loop over i for fixed k, updating D and R in place
RECURSIVE LoopI(_, _, _, _)
LoopI(st, nn, kk, i) ==
    IF i > nn THEN st
    ELSE LET dik == st.D[i][kk]
         IN  IF dik = INF
             THEN LoopI(st, nn, kk, i + 1)
             ELSE LoopI(InnerJ(st, nn, kk, i, dik, 1), nn, kk, i + 1)

\* one complete pass of the outer loop for intermediate vertex kk
FloydPassButLast(st, nn, kk) == IF kk = nn THEN st ELSE LoopI(st, nn, kk, 1)
FloydPass(st, nn, kk) == LoopI(st, nn, kk, 1)

\* while cur != j and limit > 0: follow R[cur][j]
RECURSIVE ReconstructLoop(_, _, _, _, _)
ReconstructLoop(r, j, path, cur, limit) ==
    IF cur # j /\ limit > 0
    THEN LET nxt == r[cur][j]
         IN  IF nxt = None THEN <<>>
             ELSE ReconstructLoop(r, j, Append(path, nxt), nxt, limit - 1)
    ELSE IF cur = j THEN path ELSE <<>>

\* len(R) is n+1 (row 0 is unused)
reconstruct_path(r, i, j) ==
    IF i = j THEN <<i>>
    ELSE IF r[i][j] = None THEN <<>>
    ELSE LET lenR == Cardinality(DOMAIN r)
         IN  ReconstructLoop(r, j, <<i>>, i, lenR * lenR)

\* sum(D[v][1:])
RECURSIVE RowSum(_, _, _)
RowSum(d, v, j) ==
    IF j > Cardinality(DOMAIN d) - 1 THEN 0
    ELSE Plus(d[v][j], RowSum(d, v, j + 1))

RECURSIVE CentralLoop(_, _, _)
CentralLoop(d, v, best) ==
    IF v > Cardinality(DOMAIN d) - 1 THEN best
    ELSE LET s == RowSum(d, v, 1)
         IN  IF s < best.sum
             THEN CentralLoop(d, v + 1,
                     [sum |-> s, v |-> v,
                      row |-> [j \in 1..(Cardinality(DOMAIN d) - 1) |-> d[v][j]]])
             ELSE CentralLoop(d, v + 1, best)

\* returns (best_v, best_row); both None when no row sum is below inf
choose_central_vertex(d) ==
    LET b == CentralLoop(d, 1, [sum |-> INF, v |-> None, row |-> <<>>])
    IN  [v |-> b.v, row |-> b.row]

EmptyMatrix == [i \in {0} |-> [j \in {0} |-> INF]]
NoCentral == [v |-> None, row |-> <<>>]

\* one data line "<u> <v> <w>" of the file: both directions are appended
ReadLineOneWay(u, v, w) ==
    /\ fpc = "read"
    /\ Len(edges) < 2 * FMaxLines
    /\ edges' = Append(edges, <<u, v, w>>)
    /\ UNCHANGED <<fpc, n, D, R, k, central, others1>>
ReadLine(u, v, w) ==
    /\ fpc = "read"
    /\ Len(edges) < 2 * FMaxLines
    /\ edges' = Append(Append(edges, <<u, v, w>>), <<v, u, w>>)
    /\ UNCHANGED <<fpc, n, D, R, k, central, others1>>

\* end of file: main calls floyd_warshall_with_routing, which initialises D, R
FloydInit ==
    /\ fpc = "read"
    /\ LET st == floyd_init_with_routing(n, edges)
       IN  /\ D' = st.D
           /\ R' = st.R
    /\ k' = 1
    /\ fpc' = "loop"
    /\ UNCHANGED <<n, edges, central, others1>>

\* for k in range(1, n+1): one pass; after the pass for k = n the function returns
FloydStep ==
    /\ fpc = "loop"
    /\ k <= n
    /\ LET st == FloydPass([D |-> D, R |-> R], n, k)
       IN  /\ D' = st.D
           /\ R' = st.R
    /\ k' = k + 1
    /\ fpc' = IF k = n THEN "done" ELSE "loop"
    /\ UNCHANGED <<n, edges, central, others1>>

\* main: central, vetor = choose_central_vertex(D)
ChooseCentral ==
    /\ fpc = "done"
    /\ central' = choose_central_vertex(D)
    /\ fpc' = "chosen"
    /\ UNCHANGED <<n, edges, D, R, k, others1>>

FloydIdle ==
    /\ fpc = "idle"
    /\ n = 0
    /\ edges = <<>>
    /\ D = EmptyMatrix
    /\ R = EmptyMatrix
    /\ k = 0
    /\ central = NoCentral

\* main after reading the header line "<n> <m>"
FloydStart ==
    /\ fpc = "read"
    /\ n \in 1..FMaxN
    /\ edges = <<>>
    /\ D = EmptyMatrix
    /\ R = EmptyMatrix
    /\ k = 0
    /\ central = NoCentral

(***************************************************************************)
(* Reference definitions for the Floyd-Warshall claims                     *)
(***************************************************************************)
SetMin(S) == CHOOSE x \in S : \A y \in S : x <= y

\* weight of the cheapest input edge a -> b, INF when there is none
DirectWeight(es, a, b) ==
    SetMin({INF} \cup {es[x][3] : x \in {y \in 1..Len(es) : es[y][1] = a /\ es[y][2] = b}})

\* cheapest walk i -> j using at most `steps` input edges
RECURSIVE WalkDist(_, _, _)
WalkDist(nn, es, steps) ==
    IF steps = 0
    THEN [i \in 1..nn |-> [j \in 1..nn |-> IF i = j THEN 0 ELSE INF]]
    ELSE LET M == WalkDist(nn, es, steps - 1)
         IN  [i \in 1..nn |-> [j \in 1..nn |->
                SetMin({M[i][j]} \cup
                       {Plus(M[i][es[x][1]], es[x][3]) :
                            x \in {y \in 1..Len(es) : es[y][2] = j}})]]

\* with non-negative weights a cheapest path is simple: at most n-1 edges
TrueDist(nn, es) == WalkDist(nn, es, nn - 1)

RECURSIVE PathWeight(_, _, _)
PathWeight(es, path, idx) ==
    IF idx >= Len(path) THEN 0
    ELSE Plus(DirectWeight(es, path[idx], path[idx + 1]), PathWeight(es, path, idx + 1))

Symmetric(d, nn) == \A i \in 1..nn, j \in 1..nn : d[i][j] = d[j][i]

\* C1: after floyd_warshall_with_routing returns, for every pair (i, j) with
\* D[i][j] < inf, reconstruct_path(R, i, j) starts at i, ends at j, has at
\* most n vertices, every consecutive pair is a direct input edge, and the
\* summed weights (cheapest parallel edge) equal D[i][j].
C1_ReconstructedPathIsShortest ==
    fpc = "done" =>
        \A i \in 1..n, j \in 1..n :
            D[i][j] < INF =>
                LET p == reconstruct_path(R, i, j)
                IN  /\ Len(p) >= 1
                    /\ Len(p) <= n
                    /\ p[1] = i
                    /\ p[Len(p)] = j
                    /\ \A x \in 1..(Len(p) - 1) :
                           DirectWeight(edges, p[x], p[x + 1]) < INF
                    /\ PathWeight(edges, p, 1) = D[i][j]

\* a returned path that goes through an intermediate vertex although a
\* (more expensive) direct edge exists
C1_Witness ==
    /\ fpc = "done"
    /\ \E i \in 1..n, j \in 1..n :
           /\ Len(reconstruct_path(R, i, j)) = 3
           /\ DirectWeight(edges, i, j) < INF

\* C2: the returned D[i][j] is the minimum total weight over all paths from
\* i to j in the input graph: 0 when i = j, inf when no path exists.
C2_DistancesAreMinimal ==
    fpc = "done" =>
        /\ \A i \in 1..n, j \in 1..n : D[i][j] = TrueDist(n, edges)[i][j]
        /\ \A i \in 1..n : D[i][i] = 0

\* a finished run with a pair improved below its direct edge
C2_Witness ==
    /\ fpc = "done"
    /\ \E i \in 1..n, j \in 1..n : D[i][j] < DirectWeight(edges, i, j)
                                   /\ DirectWeight(edges, i, j) < INF

\* a finished run on a file that gives one pair two weights
C2_WitnessParallel ==
    /\ fpc = "done"
    /\ \E x \in 1..Len(edges), y \in 1..Len(edges) :
           /\ edges[x][1] = edges[y][1]
           /\ edges[x][2] = edges[y][2]
           /\ edges[x][3] < edges[y][3]

\* the same for a disconnected graph
C2_WitnessUnreachable ==
    /\ fpc = "done"
    /\ \E i \in 1..n, j \in 1..n : D[i][j] = INF
    /\ \E i \in 1..n, j \in 1..n : i # j /\ D[i][j] < INF

\* C7 (as claimed): choose_central_vertex returns a vertex of 1..n with its
\* row of D, whose row sum is minimal, the lowest-indexed such vertex,
\* whether or not the graph is connected.
C7_CentralVertexIsMinimal ==
    fpc = "chosen" =>
        /\ central.v \in 1..n
        /\ central.row = [j \in 1..n |-> D[central.v][j]]
        /\ \A u \in 1..n : RowSum(D, central.v, 1) <= RowSum(D, u, 1)
        /\ \A u \in 1..n : RowSum(D, u, 1) = RowSum(D, central.v, 1) => central.v <= u

\* C8: with every input edge present in both directions, D is symmetric
\* after initialisation, after each complete pass of the outer loop, and
\* in the returned matrix.
C8_DistanceMatrixSymmetric ==
    fpc \in {"loop", "done", "chosen"} => Symmetric(D, n)

\* after a pass that created a distance for a pair without a direct edge
C8_Witness ==
    /\ fpc = "loop"
    /\ k > 1
    /\ \E i \in 1..n, j \in 1..n :
           i # j /\ D[i][j] < INF /\ DirectWeight(edges, i, j) = INF

(***************************************************************************)
(* q2_otimizando_caminho.py                                                *)
(***************************************************************************)
BMaxN == 4
BMaxEdges == 2
\* edge weights of the sample files (negative weights allowed)
BWeights == {-1, 0, 2}

\* anterior(i) <- -1: no predecessor
NoPred == -1

\* number of passes of the outer loop: range(n - 1)
PassLimitShort(nn) == nn - 2
PassLimit(nn) == nn - 1

\* the relaxation test of one edge
RelaxNonStrict(d, u, v, w) == d[u] # INF /\ d[v] >= d[u] + w
Relax(d, u, v, w) == d[u] # INF /\ d[v] > d[u] + w

\* for (u, v, w) in edges: relax in place, in list order
RECURSIVE ScanEdges(_, _, _)
ScanEdges(st, es, idx) ==
    IF idx > Len(es) THEN st
    ELSE LET u == es[idx][1]
             v == es[idx][2]
             w == es[idx][3]
         IN  IF Relax(st.dist, u, v, w)
             THEN ScanEdges([dist |-> [st.dist EXCEPT ![v] = st.dist[u] + w],
                             anterior |-> [st.anterior EXCEPT ![v] = u],
                             updated |-> TRUE], es, idx + 1)
             ELSE ScanEdges(st, es, idx + 1)

\* the marker for a walk that never leaves its loop (the code would not return)
Diverges == <<NoPred>>

\* while v != -1: caminho.append(v); if v == src: break; v = anterior[v]
\* (a chain of more steps than there are vertices repeats a vertex: a cycle)
RECURSIVE WalkBack(_, _, _, _, _)
WalkBack(ant, s, v, caminho, fuel) ==
    IF v = NoPred THEN caminho
    ELSE IF fuel = 0 THEN Diverges
    ELSE IF v = s THEN Append(caminho, v)
    ELSE WalkBack(ant, s, ant[v], Append(caminho, v), fuel - 1)

RECURSIVE Reverse(_)
Reverse(sq) == IF sq = <<>> THEN <<>> ELSE Append(Reverse(Tail(sq)), Head(sq))

reconstrucao_caminho(ant, s, dest) ==
    LET caminho == WalkBack(ant, s, dest, <<>>, Cardinality(DOMAIN ant) + 1)
    IN  IF caminho = Diverges THEN Diverges
        ELSE IF caminho[Len(caminho)] # s THEN <<>>
        ELSE Reverse(caminho)

EmptyArray == [i \in {0} |-> INF]

BellmanIdle ==
    /\ bpc = "idle"
    /\ bf_n = 0
    /\ bf_edges = <<>>
    /\ src = 0
    /\ dist = EmptyArray
    /\ anterior = EmptyArray
    /\ passes = 0
    /\ updated = FALSE

\* __main__ after reading the header "<n>\t<m>"; src = 0
BellmanBegin ==
    /\ bpc = "read"
    /\ bf_n \in 1..BMaxN
    /\ bf_edges = <<>>
    /\ src = 0
    /\ dist = EmptyArray
    /\ anterior = EmptyArray
    /\ passes = 0
    /\ updated = FALSE

\* one line "<u>\t<v>\t<w>" of the file, a directed edge
BFReadEdge(u, v, w) ==
    /\ bpc = "read"
    /\ Len(bf_edges) < BMaxEdges
    /\ bf_edges' = Append(bf_edges, <<u, v, w>>)
    /\ UNCHANGED <<bpc, bf_n, src, dist, anterior, passes, updated, others2>>

\* the call bellman_ford(n, edges, src) up to the first pass
BFStart ==
    /\ bpc = "read"
    /\ dist' = [i \in 0..(bf_n - 1) |-> IF i = src THEN 0 ELSE INF]
    /\ anterior' = [i \in 0..(bf_n - 1) |-> NoPred]
    /\ passes' = 0
    /\ bpc' = IF PassLimit(bf_n) <= 0 THEN "done" ELSE "loop"
    /\ UNCHANGED <<bf_n, bf_edges, src, updated, others2>>

\* one pass of the outer loop; the loop ends after n-1 passes or on a pass
\* without update
BFPass ==
    /\ bpc = "loop"
    /\ passes < PassLimit(bf_n)
    /\ LET st == ScanEdges([dist |-> dist, anterior |-> anterior, updated |-> FALSE],
                           bf_edges, 1)
       IN  /\ dist' = st.dist
           /\ anterior' = st.anterior
           /\ updated' = st.updated
           /\ bpc' = IF ~st.updated \/ passes + 1 >= PassLimit(bf_n)
                     THEN "done" ELSE "loop"
    /\ passes' = passes + 1
    /\ UNCHANGED <<bf_n, bf_edges, src, others2>>

(***************************************************************************)
(* q3_grid.py                                                              *)
(***************************************************************************)
\* cells of a Dijkstra grid: rows * cols <= MaxCells
MaxCells == 6
\* characters read by the grid reader: rows * cols <= RMaxCells, raw lines
\* of up to cols + 1 characters
RMaxCells == 4

COST == [ch \in {".", "=", "~", "S", "G"} |-> IF ch = "~" THEN 3 ELSE 1]
OBSTACLE == "#"
\* Optional[Cell]: None
NoCell == <<>>

\* the characters of the sample grids besides the markers S and G
FillChars == {".", "~", "#"}
\* the characters of the sample files of the reader
RawChars == {"S", "G", "."}

\* grid[r][c] for a cell (r, c), rows and columns counted from 0
CharAt(g, cell) == g[cell[1] + 1][cell[2] + 1]

\* row.find(ch): the first column holding ch, -1 when there is none
RowFind(row, ch) ==
    IF \E c \in 1..Len(row) : row[c] = ch
    THEN (CHOOSE c \in 1..Len(row) : row[c] = ch /\ \A c2 \in 1..(c - 1) : row[c2] # ch) - 1
    ELSE -1

\* the first row, top down, in which ch occurs
RECURSIVE FindFrom(_, _, _)
FindFrom(g, ch, r) ==
    IF r > Len(g) THEN NoCell
    ELSE LET c == RowFind(g[r], ch)
         IN  IF c # -1 THEN <<r - 1, c>> ELSE FindFrom(g, ch, r + 1)

find_char(g, ch) == FindFrom(g, ch, 1)

in_bounds(g, r, c) == 0 <= r /\ r < Len(g) /\ 0 <= c /\ c < Len(g[1])

is_passable(ch) == ch # OBSTACLE

cell_cost_flat(ch) == 1
cell_cost(ch) == IF ch \in DOMAIN COST THEN COST[ch] ELSE 1

\* cand = [(r-1, c), (r+1, c), (r, c-1), (r, c+1)], filtered in that order
neighbors4(g, r, c) ==
    SelectSeq(<< <<r - 1, c>>, <<r + 1, c>>, <<r, c - 1>>, <<r, c + 1>> >>,
              LAMBDA v : in_bounds(g, v[1], v[2]) /\ is_passable(CharAt(g, v)))

\* dist.get(u, float('inf'))
DictGet(d, key) == IF key \in DOMAIN d THEN d[key] ELSE INF
\* d[key] = val
DictSet(d, key, val) == [x \in DOMAIN d \cup {key} |-> IF x = key THEN val ELSE d[x]]
EmptyDict == [x \in {} |-> x]

\* Python's order of the (distance, (row, col)) tuples of the heap
TupleLess(a, b) ==
    \/ a[1] < b[1]
    \/ a[1] = b[1] /\ a[2][1] < b[2][1]
    \/ a[1] = b[1] /\ a[2][1] = b[2][1] /\ a[2][2] < b[2][2]

\* heapq.heappop: the position of the least entry of the heap
PopIndexFifo(h) == 1
PopIndex(h) == CHOOSE x \in 1..Len(h) : \A y \in 1..Len(h) : ~TupleLess(h[y], h[x])

RemoveAt(h, x) == [y \in 1..(Len(h) - 1) |-> IF y < x THEN h[y] ELSE h[y + 1]]

\* the marker for a walk over parent that never returns (a KeyError or a cycle)
Broken == <<NoCell>>

\* while cur != start: cur = parent[cur]; path.append(cur)
RECURSIVE ParentWalk(_, _, _, _, _)
ParentWalk(p, s, cur, path, fuel) ==
    IF cur = s THEN path
    ELSE IF fuel = 0 \/ cur \notin DOMAIN p THEN Broken
    ELSE ParentWalk(p, s, p[cur], Append(path, p[cur]), fuel - 1)

reconstruct_unreversed(p, s, g) ==
    IF g \notin DOMAIN p /\ g # s THEN <<>>
    ELSE ParentWalk(p, s, g, <<g>>, Cardinality(DOMAIN p) + 1)
reconstruct(p, s, g) ==
    IF g \notin DOMAIN p /\ g # s THEN <<>>
    ELSE LET path == ParentWalk(p, s, g, <<g>>, Cardinality(DOMAIN p) + 1)
         IN  IF path = Broken THEN Broken ELSE Reverse(path)

\* for v in neighbors4(grid, ur, uc): relax and push
RECURSIVE RelaxNeighbors(_, _, _, _, _, _)
RelaxNeighbors(st, g, u, d, nb, idx) ==
    IF idx > Len(nb) THEN st
    ELSE LET v == nb[idx]
             nd == d + cell_cost(CharAt(g, v))
         IN  IF nd < DictGet(st.dist, v)
             THEN RelaxNeighbors([dist |-> DictSet(st.dist, v, nd),
                                  parent |-> DictSet(st.parent, v, u),
                                  heap |-> Append(st.heap, <<nd, v>>)],
                                 g, u, d, nb, idx + 1)
             ELSE RelaxNeighbors(st, g, u, d, nb, idx + 1)

\* line = line + ' ' * (cols - len(line)), or line[:cols]
PadTruncate(line, cols) == [c \in 1..cols |-> IF c <= Len(line) THEN line[c] ELSE " "]

\* if start is None or goal is None: raise ValueError
MarkerMissingBoth(s, g) == s = NoCell /\ g = NoCell
MarkerMissing(s, g) == s = NoCell \/ g = NoCell

DijkstraIdle ==
    /\ gpc = "idle"
    /\ dj_dist = EmptyDict
    /\ parent = EmptyDict
    /\ heap = <<>>
    /\ expanded = 0
    /\ closed = {}
    /\ lastpop = 0
    /\ dj_path = <<>>
    /\ dj_cost = 0

ReaderIdle ==
    /\ rpc = "idle"
    /\ hrows = 0
    /\ hcols = 0
    /\ flines = <<>>

Count(g, ch) == Cardinality({cell \in (1..Len(g)) \X (1..Len(g[1])) : g[cell[1]][cell[2]] = ch})

\* the grids read_grid returns for well-formed files: exactly one S, one G
WellFormedGrids(rows, cols) ==
    {g \in [1..rows -> [1..cols -> FillChars \cup {"S", "G"}]] :
        Count(g, "S") = 1 /\ Count(g, "G") = 1}

\* dijkstra(grid, start, goal) before its loop: dist = {start: 0},
\* parent = {}, expanded = 0, heap = [(0, start)]
DijkstraEntry ==
    /\ gpc = "run"
    /\ dj_dist = DictSet(EmptyDict, start, 0)
    /\ parent = EmptyDict
    /\ heap = << <<0, start>> >>
    /\ expanded = 0
    /\ closed = {}
    /\ lastpop = 0
    /\ dj_path = <<>>
    /\ dj_cost = 0

\* solve_file after read_grid returned a well-formed grid
DijkstraBegin ==
    /\ \E rows \in 1..MaxCells, cols \in 1..MaxCells :
           /\ rows * cols <= MaxCells
           /\ grid \in WellFormedGrids(rows, cols)
    /\ start = find_char(grid, "S")
    /\ goal = find_char(grid, "G")
    /\ DijkstraEntry

\* one iteration of "while heap": pop the least entry; discard it when stale,
\* return when it is the goal, else relax the passable neighbours
DijkstraPop ==
    /\ gpc = "run"
    /\ heap # <<>>
    /\ LET x == PopIndex(heap)
           d == heap[x][1]
           u == heap[x][2]
           rest == RemoveAt(heap, x)
       IN  /\ expanded' = expanded + 1
           /\ IF d # DictGet(dj_dist, u)
              THEN /\ heap' = rest
                   /\ UNCHANGED <<gpc, dj_dist, parent, closed, lastpop, dj_path, dj_cost>>
              ELSE IF u = goal
              THEN /\ dj_path' = reconstruct(parent, start, goal)
                   /\ dj_cost' = dj_dist[goal]
                   /\ gpc' = "done"
                   /\ heap' = rest
                   /\ closed' = closed \cup {u}
                   /\ lastpop' = d
                   /\ UNCHANGED <<dj_dist, parent>>
              ELSE LET st == RelaxNeighbors([dist |-> dj_dist, parent |-> parent,
                                             heap |-> rest],
                                            grid, u, d, neighbors4(grid, u[1], u[2]), 1)
                   IN  /\ dj_dist' = st.dist
                       /\ parent' = st.parent
                       /\ heap' = st.heap
                       /\ closed' = closed \cup {u}
                       /\ lastpop' = d
                       /\ UNCHANGED <<gpc, dj_path, dj_cost>>
    /\ UNCHANGED <<rpc, hrows, hcols, flines, grid, start, goal, others3>>

\* the heap is empty: return [], float('inf'), expanded
DijkstraNoPath ==
    /\ gpc = "run"
    /\ heap = <<>>
    /\ dj_path' = <<>>
    /\ dj_cost' = INF
    /\ gpc' = "done"
    /\ UNCHANGED <<dj_dist, parent, heap, expanded, closed, lastpop>>
    /\ UNCHANGED <<rpc, hrows, hcols, flines, grid, start, goal, others3>>

\* the raw lines a file may hold for a declared width: up to cols+1 characters
RawLines(cols) == UNION {[1..l -> RawChars] : l \in 0..(cols + 1)}

\* solve_file after the header "<rows> <cols>" was read
ReaderBegin ==
    /\ rpc = "start"
    /\ hrows \in 0..RMaxCells
    /\ hcols \in 1..RMaxCells
    /\ hrows * hcols <= RMaxCells
    /\ \E cnt \in 0..hrows : flines \in [1..cnt -> RawLines(hcols)]
    /\ grid = <<>>
    /\ start = NoCell
    /\ goal = NoCell

\* read_grid: rows lines padded or cut to cols characters, then S and G are
\* looked up; ValueError when the file ends early or a marker is missing
ReadGrid ==
    /\ rpc = "start"
    /\ IF Len(flines) < hrows
       THEN /\ rpc' = "error"
            /\ UNCHANGED <<grid, start, goal>>
       ELSE LET g == [r \in 1..hrows |-> PadTruncate(flines[r], hcols)]
                s == find_char(g, "S")
                t == find_char(g, "G")
            IN  IF MarkerMissing(s, t)
                THEN /\ rpc' = "error"
                     /\ UNCHANGED <<grid, start, goal>>
                ELSE /\ rpc' = "accepted"
                     /\ grid' = g
                     /\ start' = s
                     /\ goal' = t
    /\ UNCHANGED <<hrows, hcols, flines, gpc, dj_dist, parent, heap, expanded,
                   closed, lastpop, dj_path, dj_cost, others3>>

\* solve_file: path, cost, expanded = dijkstra(grid, s, g)
SolveFile ==
    /\ rpc = "accepted"
    /\ rpc' = "solving"
    /\ gpc' = "run"
    /\ dj_dist' = DictSet(EmptyDict, start, 0)
    /\ heap' = << <<0, start>> >>
    /\ UNCHANGED <<hrows, hcols, flines, grid, start, goal, parent, expanded,
                   closed, lastpop, dj_path, dj_cost, others3>>

(***************************************************************************)
(* Specifications                                                          *)
(***************************************************************************)
GridIdle == ReaderIdle /\ grid = <<>> /\ start = NoCell /\ goal = NoCell /\ DijkstraIdle

FloydInitState == FloydStart /\ BellmanIdle /\ GridIdle

FloydNext ==
    \/ \E u \in 1..n, v \in 1..n, w \in FWeights : u < v /\ ReadLine(u, v, w)
    \/ FloydInit
    \/ FloydStep
    \/ ChooseCentral

SpecFloyd == FloydInitState /\ [][FloydNext]_vars

BellmanInitState == BellmanBegin /\ FloydIdle /\ GridIdle

BellmanNext ==
    \/ \E u \in 0..(bf_n - 1), v \in 0..(bf_n - 1), w \in BWeights : BFReadEdge(u, v, w)
    \/ BFStart
    \/ BFPass

SpecBellman == BellmanInitState /\ [][BellmanNext]_vars

DijkstraInitState == DijkstraBegin /\ ReaderIdle /\ FloydIdle /\ BellmanIdle

DijkstraNext ==
    \/ DijkstraPop
    \/ DijkstraNoPath

SpecDijkstra == DijkstraInitState /\ [][DijkstraNext]_vars

ReadGridInitState == ReaderBegin /\ DijkstraIdle /\ FloydIdle /\ BellmanIdle

ReadGridNext ==
    \/ ReadGrid
    \/ SolveFile

SpecReadGrid == ReadGridInitState /\ [][ReadGridNext]_vars

(***************************************************************************)
(* Reference definitions for the Bellman-Ford claims                       *)
(***************************************************************************)
\* one more edge: the cheapest walks s -> v of at most m+1 edges (cur) from
\* those of at most m edges (M); every vertex is computed from M only
RECURSIVE WalkEdges(_, _, _, _)
WalkEdges(M, cur, es, idx) ==
    IF idx > Len(es) THEN cur
    ELSE LET u == es[idx][1]
             v == es[idx][2]
             c == Plus(M[u], es[idx][3])
             nxt == [x \in DOMAIN cur |-> IF x = v /\ c < cur[x] THEN c ELSE cur[x]]
         IN  WalkEdges(M, nxt, es, idx + 1)

WalkStep(nn, es, M) == WalkEdges(M, M, es, 1)

\* cheapest walk s -> v using at most `steps` input edges
RECURSIVE WalkFrom(_, _, _, _)
WalkFrom(nn, es, s, steps) ==
    IF steps = 0
    THEN [v \in 0..(nn - 1) |-> IF v = s THEN 0 ELSE INF]
    ELSE WalkStep(nn, es, WalkFrom(nn, es, s, steps - 1))

\* without a negative cycle a cheapest walk is a simple path: at most n-1 edges
TrueDistFrom(nn, es, s) == WalkFrom(nn, es, s, nn - 1)

\* a negative cycle is reachable from s iff walks of n edges still improve
NoNegativeCycle(nn, es, T) == WalkStep(nn, es, T) = T

\* C3: without a negative cycle reachable from src, the dist returned by
\* bellman_ford (early exit included) is the true shortest distance of every
\* vertex (inf when unreachable), and one more scan of the edges relaxes none.
C3_BellmanFordDistances ==
    bpc = "done" =>
        LET T == TrueDistFrom(bf_n, bf_edges, src)
        IN  NoNegativeCycle(bf_n, bf_edges, T) =>
                /\ dist = T
                /\ \A x \in 1..Len(bf_edges) :
                       LET u == bf_edges[x][1]
                           v == bf_edges[x][2]
                           w == bf_edges[x][3]
                       IN  ~(dist[u] # INF /\ dist[v] > dist[u] + w)

BFReturned ==
    /\ bpc = "done"
    /\ NoNegativeCycle(bf_n, bf_edges, TrueDistFrom(bf_n, bf_edges, src))

\* a run that left the loop early, on a pass without update, after an earlier
\* pass had lowered a distance below zero
C3_Witness ==
    /\ BFReturned
    /\ passes < bf_n - 1
    /\ ~updated
    /\ \E v \in 0..(bf_n - 1) : dist[v] < 0

\* a run that needed all n-1 passes
C3_WitnessAllPasses ==
    /\ BFReturned
    /\ bf_n >= 3
    /\ passes = bf_n - 1
    /\ updated

PathOK(p, s, dest) ==
    /\ Len(p) >= 1
    /\ p[1] = s
    /\ p[Len(p)] = dest
    /\ \A x \in 1..(Len(p) - 1) : DirectWeight(bf_edges, p[x], p[x + 1]) < INF
    /\ PathWeight(bf_edges, p, 1) = dist[dest]

\* C6: without a negative cycle reachable from src, for every dest,
\* reconstrucao_caminho on the returned predecessor array terminates and
\* returns a src..dest path along input edges of total weight dist[dest]
\* when dist[dest] is finite, and the empty sequence when it is infinite.
C6_ReconstructionFollowsPredecessors ==
    BFReturned =>
        \A dest \in 0..(bf_n - 1) :
            LET p == reconstrucao_caminho(anterior, src, dest)
            IN  /\ p # Diverges
                /\ dist[dest] < INF => PathOK(p, src, dest)
                /\ dist[dest] = INF => p = <<>>

\* a finished run on a graph with a zero-weight cycle through reachable
\* vertices, a reconstructed path of two vertices and an unreachable vertex
C6_Witness ==
    /\ BFReturned
    /\ \E x \in 1..Len(bf_edges), y \in 1..Len(bf_edges) :
           /\ bf_edges[x][1] = bf_edges[y][2]
           /\ bf_edges[x][2] = bf_edges[y][1]
           /\ bf_edges[x][1] # bf_edges[x][2]
           /\ bf_edges[x][3] = 0
           /\ bf_edges[y][3] = 0
           /\ dist[bf_edges[x][1]] < INF
    /\ \E dest \in 0..(bf_n - 1) : Len(reconstrucao_caminho(anterior, src, dest)) = 2
    /\ \E dest \in 0..(bf_n - 1) : dist[dest] = INF

(***************************************************************************)
(* Reference definitions for the grid claims                               *)
(***************************************************************************)
Cells(g) == (0..(Len(g) - 1)) \X (0..(Len(g[1]) - 1))

Adjacent(a, b) ==
    \/ a[1] = b[1] /\ (a[2] = b[2] + 1 \/ b[2] = a[2] + 1)
    \/ a[2] = b[2] /\ (a[1] = b[1] + 1 \/ b[1] = a[1] + 1)

\* the cost of entering a cell: '~' costs 3, every other passable cell 1
EnterCost(ch) == IF ch = "~" THEN 3 ELSE 1

\* the function f with its values computed once (f itself, as a table)
Table(f) == f @@ EmptyDict

\* cheapest obstacle-free path s -> v of at most m+1 moves from those of at
\* most m moves
GridStep(g, M) ==
    Table([v \in Cells(g) |->
        IF CharAt(g, v) = "#" THEN M[v]
        ELSE SetMin({M[v]} \cup
                    {Plus(M[u], EnterCost(CharAt(g, v))) :
                         u \in {c \in Cells(g) : Adjacent(c, v)}})])

RECURSIVE GridWalk(_, _, _)
GridWalk(g, s, steps) ==
    IF steps = 0
    THEN [v \in Cells(g) |-> IF v = s THEN 0 ELSE INF]
    ELSE GridStep(g, GridWalk(g, s, steps - 1))

\* a cheapest path repeats no cell: fewer moves than there are cells
TrueGridDist(g, s) == GridWalk(g, s, Cardinality(Cells(g)) - 1)

RECURSIVE EnterSum(_, _, _)
EnterSum(g, p, idx) ==
    IF idx > Len(p) THEN 0
    ELSE EnterCost(CharAt(g, p[idx])) + EnterSum(g, p, idx + 1)

\* C4: dijkstra returns as total cost the minimum over all 4-connected
\* obstacle-free paths from S to G of the summed entering costs; without
\* such a path it returns the empty path and infinite cost.
C4_DijkstraCostIsMinimal ==
    gpc = "done" =>
        LET T == TrueGridDist(grid, start)
        IN  /\ dj_cost = T[goal]
            /\ T[goal] = INF => dj_path = <<>>
            /\ T[goal] < INF => dj_path # <<>>

\* a returned path that enters a '~' cell although the grid has more cells
\* than the path
C4_Witness ==
    /\ gpc = "done"
    /\ dj_cost < INF
    /\ \E x \in 2..Len(dj_path) : CharAt(grid, dj_path[x]) = "~"
    /\ \E c \in Cells(grid) : CharAt(grid, c) = "." /\ \A x \in 1..Len(dj_path) : dj_path[x] # c

\* a run that ends without path because obstacles separate S and G
C4_WitnessNoPath ==
    /\ gpc = "done"
    /\ dj_cost = INF
    /\ expanded >= 2

\* C5: a non-empty returned path starts at start, ends at goal, moves between
\* 4-adjacent cells in bounds, holds no obstacle, repeats no cell, and the
\* entering costs of its cells after the first sum to the returned cost.
C5_DijkstraPathIsValid ==
    (gpc = "done" /\ dj_path # <<>>) =>
        /\ dj_path # Broken
        /\ dj_path[1] = start
        /\ dj_path[Len(dj_path)] = goal
        /\ \A x \in 1..Len(dj_path) :
               /\ dj_path[x] \in Cells(grid)
               /\ CharAt(grid, dj_path[x]) # "#"
        /\ \A x \in 1..(Len(dj_path) - 1) : Adjacent(dj_path[x], dj_path[x + 1])
        /\ \A x \in 1..Len(dj_path), y \in 1..Len(dj_path) :
               x # y => dj_path[x] # dj_path[y]
        /\ EnterSum(grid, dj_path, 2) = dj_cost

\* a returned path of four or more cells that turns a corner
C5_Witness ==
    /\ gpc = "done"
    /\ Len(dj_path) >= 4
    /\ \E x \in 1..Len(dj_path), y \in 1..Len(dj_path) :
           dj_path[x][1] # dj_path[y][1] /\ dj_path[x][2] # dj_path[y][2]

\* C10: once a cell is popped with a valid heap entry its distance is the
\* true minimum and neither its distance nor its parent changes afterwards;
\* the distances of such pops never decrease, and the cost returned at the
\* first valid pop of the goal is its final distance.
C10_PoppedCellsAreFinal ==
    /\ [](LET T == TrueGridDist(grid, start)
          IN  /\ \A u \in closed : DictGet(dj_dist, u) = T[u]
              /\ gpc = "done" /\ dj_path # <<>> => dj_cost = T[goal])
    /\ [][\A u \in closed :
              /\ DictGet(dj_dist', u) = DictGet(dj_dist, u)
              /\ (u \in DOMAIN parent) = (u \in DOMAIN parent')
              /\ u \in DOMAIN parent => parent'[u] = parent[u]]_vars
    /\ [][lastpop' >= lastpop]_vars

\* three cells popped with valid entries, the last at distance 3 or more
C10_Witness ==
    /\ gpc = "run"
    /\ Cardinality(closed) >= 3
    /\ lastpop >= 3
    /\ \E u \in closed : CharAt(grid, u) = "~"

\* the character of row r, column c (counted from 1) of the grid the file
\* declares: the character of the line, a space beyond its end
FileCell(r, c) == IF c <= Len(flines[r]) THEN flines[r][c] ELSE " "

FileComplete == Len(flines) >= hrows

MarkerCells(ch) ==
    IF FileComplete
    THEN {p \in (1..hrows) \X (1..hcols) : FileCell(p[1], p[2]) = ch}
    ELSE {}

\* the first cell holding ch, rows top down and columns left to right,
\* as a (row, col) counted from 0
FirstMarker(ch) ==
    LET p == CHOOSE q \in MarkerCells(ch) :
                 \A o \in MarkerCells(ch) : q[1] < o[1] \/ (q[1] = o[1] /\ q[2] <= o[2])
    IN  <<p[1] - 1, p[2] - 1>>

\* C9 (as claimed): read_grid accepts a grid only when it holds exactly one
\* S and exactly one G; a grid with a missing or repeated marker is a fatal
\* error and dijkstra is never run.
C9_ExactlyOneMarkerAccepted ==
    /\ rpc \in {"accepted", "solving"} =>
           Cardinality(MarkerCells("S")) = 1 /\ Cardinality(MarkerCells("G")) = 1
    /\ gpc # "idle" => rpc = "solving"

\* C9 (amended): read_grid fails exactly when the file ends early or S or G is
\* missing from the padded/truncated grid, and then dijkstra is never run; a
\* grid in which a marker occurs more than once is accepted, with start and
\* goal the first occurrence in row-major order.
C9_MissingMarkerIsFatal ==
    /\ rpc = "error" <=>
           (rpc # "start" /\ (MarkerCells("S") = {} \/ MarkerCells("G") = {}))
    /\ rpc \in {"accepted", "solving"} =>
           /\ Len(grid) = hrows
           /\ \A r \in 1..hrows : Len(grid[r]) = hcols
           /\ \A r \in 1..hrows, c \in 1..hcols : grid[r][c] = FileCell(r, c)
           /\ start = FirstMarker("S")
           /\ goal = FirstMarker("G")
    /\ gpc # "idle" => rpc = "solving"

\* dijkstra entered on a grid with two S cells, the second one before G
C9_Witness ==
    /\ rpc = "solving"
    /\ gpc = "run"
    /\ Cardinality(MarkerCells("S")) >= 2
    /\ heap = << <<0, FirstMarker("S")>> >>

\* a file rejected because its only S lies beyond the declared width
C9_WitnessTruncated ==
    /\ rpc = "error"
    /\ FileComplete
    /\ MarkerCells("G") # {}
    /\ \E r \in 1..hrows : Len(flines[r]) > hcols /\ flines[r][hcols + 1] = "S"

====
